---- MODULE Spec2Model ----
(***************************************************************************)
(* Robin Hood hash table of src/src/lib.rs (module rh_hash_table).         *)
(* The table is an array of Option<KeyValuePair>; insert, remove and       *)
(* contains probe linearly from hash(key) % capacity; insert grows the     *)
(* table through build_resized_table, which re-inserts through insert.     *)
(* Every public call is one action; the loops and the recursion of the     *)
(* code are the recursive operators below.                                 *)
(***************************************************************************)
EXTENDS Integers, Sequences, FiniteSets, TLC

\* ---------------------------------------------------------------- bounds
NumKeys == 3
NumValues == 2
MaxHash == 3
MaxInitCapacity == 3
MaxCapacity == 12
MaxCapacityInvalid == 4

Keys == 1..NumKeys
Values == 1..NumValues
HashValues == 0..(MaxHash - 1)
InitCapacities == 1..MaxInitCapacity
\* max_load_factor as an exact fraction <<numerator, denominator>>; 9/10 is
\* the value of the repository's tests.  For operands this small the f64
\* quotient num_entries / capacity compares with the f64 literal exactly as
\* the fractions do.
LoadFactors == {<<9, 10>>, <<1, 2>>}

\* The fields of RobinHoodHashTable, and `last`: the most recent call, its
\* arguments and return value, the table before it (pre) and, for insert,
\* the table once the entry is placed and before the load check (mid).
VARIABLES capacity, num_entries, max_load_factor, table, hasher_state, last

vars == <<capacity, num_entries, max_load_factor, table, hasher_state, last>>

\* ------------------------------------------------------------------ data
\* Option<KeyValuePair>: None is the empty sequence, Some(e) is <<e>>.
None == <<>>

Some(e) == <<e>>

KeyValuePair(key, value, psl) ==
    [key |-> key, value |-> value, probing_sequence_length |-> psl]

\* hasher.finish() as usize % self.capacity
HashId(key, cap) == hasher_state[key] % cap

\* hash_id += 1; if hash_id >= self.capacity { hash_id = 0 }
NextSlot(hash_id, cap) == IF hash_id + 1 >= cap THEN 0 ELSE hash_id + 1

\* The three fields of the table that the operations read and write.
Self == [capacity |-> capacity, num_entries |-> num_entries, table |-> table]

EmptyTable(cap) == [i \in 0..(cap - 1) |-> None]

\* ---------------------------------------------------------------- insert
\* Variant of InsertLoop: the entry taken out of the slot restarts its probe
\* count instead of keeping the distance it already has.
RECURSIVE InsertLoopResetsPsl(_, _, _)
InsertLoopResetsPsl(self, key_value, hash_id) ==
    LET bucket == self.table[hash_id] IN
    IF bucket = None
    THEN [self EXCEPT !.table[hash_id] = Some(key_value),
                      !.num_entries = @ + 1]
    ELSE LET kv == IF bucket[1].probing_sequence_length
                        > key_value.probing_sequence_length
                   THEN [bucket[1] EXCEPT !.probing_sequence_length = 0]
                   ELSE key_value
         IN InsertLoopResetsPsl(self,
                       [kv EXCEPT !.probing_sequence_length = @ + 1],
                       NextSlot(hash_id, self.capacity))

\* Variant of InsertLoop: the None arm stores the entry without counting it.
RECURSIVE InsertLoopForgetsCount(_, _, _)
InsertLoopForgetsCount(self, key_value, hash_id) ==
    LET bucket == self.table[hash_id] IN
    IF bucket = None
    THEN [self EXCEPT !.table[hash_id] = Some(key_value)]
    ELSE LET kv == IF bucket[1].probing_sequence_length
                        > key_value.probing_sequence_length
                   THEN bucket[1]
                   ELSE key_value
         IN InsertLoopForgetsCount(self,
                       [kv EXCEPT !.probing_sequence_length = @ + 1],
                       NextSlot(hash_id, self.capacity))

\* The probe loop of insert (lines 57-83).
RECURSIVE InsertLoop(_, _, _)
InsertLoop(self, key_value, hash_id) ==
    LET bucket == self.table[hash_id] IN
    IF bucket = None
    THEN [self EXCEPT !.table[hash_id] = Some(key_value),
                      !.num_entries = @ + 1]
    ELSE LET kv == IF bucket[1].probing_sequence_length
                        > key_value.probing_sequence_length
                   THEN bucket[1]
                   ELSE key_value
         IN InsertLoop(self,
                       [kv EXCEPT !.probing_sequence_length = @ + 1],
                       NextSlot(hash_id, self.capacity))

\* The entry placed, before the load check (lines 49-83).
InsertPlace(self, key, value) ==
    InsertLoop(self, KeyValuePair(key, value, 0), HashId(key, self.capacity))

\* Variant of LoadReached: the load computed by integer division.
LoadReachedIntegerDivision(self) ==
    (self.num_entries \div self.capacity) * max_load_factor[2]
        >= max_load_factor[1]

\* Variant of LoadReached: growth only once the count exceeds the capacity.
LoadReachedWhenOverfull(self) == self.num_entries > self.capacity

\* current_load >= self.max_load_factor (lines 85-86)
LoadReached(self) ==
    self.num_entries * max_load_factor[2] >= max_load_factor[1] * self.capacity

RECURSIVE insert(_, _, _)
\* The for loop of build_resized_table (lines 97-102).
RECURSIVE ReinsertFrom(_, _, _, _)
ReinsertFrom(self, temp_table, len, i) ==
    IF i >= len THEN self
    ELSE IF temp_table[i] # None
         THEN ReinsertFrom(insert(self, temp_table[i][1].key,
                                  temp_table[i][1].value),
                           temp_table, len, i + 1)
         ELSE ReinsertFrom(self, temp_table, len, i + 1)

build_resized_table(self) ==
    ReinsertFrom([capacity |-> self.capacity * 2,
                  num_entries |-> self.num_entries,
                  table |-> EmptyTable(self.capacity * 2)],
                 self.table, self.capacity, 0)

insert(self, key, value) ==
    LET placed == InsertPlace(self, key, value) IN
    IF LoadReached(placed) THEN build_resized_table(placed) ELSE placed

\* ---------------------------------------------------------------- remove
\* Variant of RemoveLoop: reports the key found without clearing its slot.
RECURSIVE RemoveLoopKeepsSlot(_, _, _)
RemoveLoopKeepsSlot(self, key, hash_id) ==
    LET bucket == self.table[hash_id] IN
    IF bucket = None THEN [ret |-> FALSE, self |-> self]
    ELSE IF bucket[1].key = key
         THEN [ret |-> TRUE, self |-> self]
         ELSE RemoveLoopKeepsSlot(self, key, NextSlot(hash_id, self.capacity))

\* The probe loop of remove (lines 109-134).
RECURSIVE RemoveLoop(_, _, _)
RemoveLoop(self, key, hash_id) ==
    LET bucket == self.table[hash_id] IN
    IF bucket = None THEN [ret |-> FALSE, self |-> self]
    ELSE IF bucket[1].key = key
         THEN [ret |-> TRUE, self |-> [self EXCEPT !.table[hash_id] = None]]
         ELSE RemoveLoop(self, key, NextSlot(hash_id, self.capacity))

\* Variant of remove: the entry count is lowered before the key is looked for.
removeCountsDownFirst(self, key) ==
    RemoveLoop([self EXCEPT !.num_entries = @ - 1], key,
               HashId(key, self.capacity))

remove(self, key) == RemoveLoop(self, key, HashId(key, self.capacity))

\* -------------------------------------------------------------- contains
\* The probe loop of contains (lines 142-166).
RECURSIVE ContainsLoop(_, _, _, _)
ContainsLoop(self, key, hash_id, probing_sequence_len) ==
    LET bucket == self.table[hash_id] IN
    IF bucket = None THEN FALSE
    ELSE IF probing_sequence_len > bucket[1].probing_sequence_length THEN FALSE
    ELSE IF bucket[1].key = key THEN TRUE
    ELSE ContainsLoop(self, key, NextSlot(hash_id, self.capacity),
                      probing_sequence_len + 1)

contains(self, key) == ContainsLoop(self, key, HashId(key, self.capacity), 0)

\* ------------------------------------------------------- slots and keys
Occupied(self) == {i \in DOMAIN self.table : self.table[i] # None}

SlotsHolding(self, key) == {i \in Occupied(self) : self.table[i][1].key = key}

Held(self, key) == SlotsHolding(self, key) # {}

\* --------------------------------------------------- slots a loop visits
\* The number of slots insert's loop (lines 57-83) reads from hash_id on,
\* the None slot it ends at included; more than capacity when the walk comes
\* back to its start without meeting None (the loop then never ends).
RECURSIVE InsertLoopVisits(_, _, _)
InsertLoopVisits(self, hash_id, visited) ==
    IF self.table[hash_id] = None THEN visited + 1
    ELSE IF visited >= self.capacity THEN visited + 1
    ELSE InsertLoopVisits(self, NextSlot(hash_id, self.capacity), visited + 1)

\* Every call of insert that one top-level insert(key, value) makes, its own
\* included, as pairs <<table the call starts on, key>>: build_resized_table
\* calls insert once per entry of the old array (lines 97-102), on the table
\* the calls before it have left.
\* The number of slots remove's loop (lines 109-134) reads from hash_id on,
\* the slot it leaves at included; more than capacity when the walk comes
\* back to its start without meeting None or the key.
RECURSIVE RemoveLoopVisits(_, _, _, _)
RemoveLoopVisits(self, key, hash_id, visited) ==
    LET bucket == self.table[hash_id] IN
    IF bucket = None THEN visited + 1
    ELSE IF bucket[1].key = key THEN visited + 1
    ELSE IF visited >= self.capacity THEN visited + 1
    ELSE RemoveLoopVisits(self, key, NextSlot(hash_id, self.capacity),
                          visited + 1)

\* The number of slots contains' loop (lines 142-166) reads from hash_id on;
\* probing_sequence_len counts the slots already passed.
RECURSIVE ContainsLoopVisits(_, _, _, _)
ContainsLoopVisits(self, key, hash_id, probing_sequence_len) ==
    LET bucket == self.table[hash_id] IN
    IF bucket = None THEN probing_sequence_len + 1
    ELSE IF probing_sequence_len > bucket[1].probing_sequence_length
         THEN probing_sequence_len + 1
    ELSE IF bucket[1].key = key THEN probing_sequence_len + 1
    ELSE IF probing_sequence_len >= self.capacity
         THEN probing_sequence_len + 1
    ELSE ContainsLoopVisits(self, key, NextSlot(hash_id, self.capacity),
                            probing_sequence_len + 1)

RECURSIVE InsertCalls(_, _, _)
RECURSIVE ReinsertCalls(_, _, _, _)
ReinsertCalls(self, temp_table, len, i) ==
    IF i >= len THEN {}
    ELSE IF temp_table[i] # None
         THEN InsertCalls(self, temp_table[i][1].key, temp_table[i][1].value)
              \cup ReinsertCalls(insert(self, temp_table[i][1].key,
                                        temp_table[i][1].value),
                                 temp_table, len, i + 1)
         ELSE ReinsertCalls(self, temp_table, len, i + 1)

InsertCalls(self, key, value) ==
    {<<self, key>>} \cup
    IF {i \in DOMAIN self.table : self.table[i] = None} = {} THEN {}
    ELSE LET placed == InsertPlace(self, key, value) IN
         IF LoadReached(placed)
         THEN ReinsertCalls([capacity |-> placed.capacity * 2,
                             num_entries |-> placed.num_entries,
                             table |-> EmptyTable(placed.capacity * 2)],
                            placed.table, placed.capacity, 0)
         ELSE {}

\* ------------------------------------------------------- loop exit guards
\* insert's loop leaves only through the None arm.
InsertReturns(self) == {i \in DOMAIN self.table : self.table[i] = None} # {}

\* remove's loop leaves through the None arm or at a slot holding the key.
RemoveReturns(self, key) ==
    {i \in DOMAIN self.table :
        \/ self.table[i] = None
        \/ self.table[i] # None /\ self.table[i][1].key = key} # {}

\* ----------------------------------------------------------------- state
\* new(max_load, capacity) (lines 37-46); RandomState fixes the hash of
\* every key for the life of the table.
Init ==
    /\ capacity \in InitCapacities
    /\ max_load_factor \in LoadFactors
    /\ hasher_state \in [Keys -> HashValues]
    /\ num_entries = 0
    /\ table = EmptyTable(capacity)
    /\ last = [op |-> "new", key |-> 0, value |-> 0, ret |-> FALSE,
               grew |-> FALSE,
               pre |-> Self, mid |-> Self]

\* insert(key, value), growth included.  The call is taken only while the
\* capacity it ends with stays within MaxCapacity.
Insert(key, value) ==
    /\ InsertReturns(Self)
    /\ \E placed \in {InsertPlace(Self, key, value)} :
       \E done \in {IF LoadReached(placed)
                    THEN build_resized_table(placed) ELSE placed} :
          /\ done.capacity <= MaxCapacity
          /\ capacity' = done.capacity
          /\ num_entries' = done.num_entries
          /\ table' = done.table
          /\ last' = [op |-> "insert", key |-> key, value |-> value,
                      ret |-> FALSE, grew |-> LoadReached(placed),
                      pre |-> Self, mid |-> placed]
    /\ UNCHANGED <<max_load_factor, hasher_state>>

Remove(key) ==
    /\ RemoveReturns(Self, key)
    /\ \E done \in {remove(Self, key)} :
          /\ capacity' = done.self.capacity
          /\ num_entries' = done.self.num_entries
          /\ table' = done.self.table
          /\ last' = [op |-> "remove", key |-> key, value |-> 0,
                      ret |-> done.ret, grew |-> FALSE,
                      pre |-> Self, mid |-> Self]
    /\ UNCHANGED <<max_load_factor, hasher_state>>

\* Variant of Contains: the lookup takes the entry it finds out of its slot.
ContainsTakesEntry(key) ==
    /\ last' = [op |-> "contains", key |-> key, value |-> 0,
                ret |-> contains(Self, key), grew |-> FALSE,
                pre |-> Self, mid |-> Self]
    /\ table' = IF contains(Self, key)
                THEN remove(Self, key).self.table
                ELSE table
    /\ UNCHANGED <<capacity, num_entries, max_load_factor, hasher_state>>

\* contains(key) (lines 137-167): it takes &mut self and writes nothing.
Contains(key) ==
    /\ last' = [op |-> "contains", key |-> key, value |-> 0,
                ret |-> contains(Self, key), grew |-> FALSE,
                pre |-> Self, mid |-> Self]
    /\ UNCHANGED <<capacity, num_entries, table, max_load_factor, hasher_state>>

Next ==
    \/ \E key \in Keys, value \in Values : Insert(key, value)
    \/ \E key \in Keys : Remove(key)
    \/ \E key \in Keys : Contains(key)

Spec == Init /\ [][Next]_vars

\* Inserts restricted to keys that no occupied slot holds.
InsertAbsent(key, value) == SlotsHolding(Self, key) = {} /\ Insert(key, value)

NextDistinct ==
    \/ \E key \in Keys, value \in Values : InsertAbsent(key, value)
    \/ \E key \in Keys : Remove(key)
    \/ \E key \in Keys : Contains(key)

SpecDistinct == Init /\ [][NextDistinct]_vars

\* Sequences of insert and contains calls only (no remove).
NextInsertOnly ==
    \/ \E key \in Keys, value \in Values : Insert(key, value)
    \/ \E key \in Keys : Contains(key)

SpecInsertOnly == Init /\ [][NextInsertOnly]_vars

\* ------------------------------------------- tables of any configuration
\* new (lines 37-46) stores max_load and capacity as given, whatever they
\* are: the load factors below lie outside the open interval (0, 1).
InvalidLoadFactors == {<<0, 1>>, <<1, 1>>, <<3, 2>>}

\* The tables new builds from a zero capacity or a load factor outside (0, 1).
InitInvalidConfig ==
    /\ capacity \in 0..MaxInitCapacity
    /\ max_load_factor \in LoadFactors \cup InvalidLoadFactors
    /\ capacity = 0 \/ max_load_factor \in InvalidLoadFactors
    /\ hasher_state \in [Keys -> HashValues]
    /\ num_entries = 0
    /\ table = EmptyTable(capacity)
    /\ last = [op |-> "new", key |-> 0, value |-> 0, ret |-> FALSE,
               grew |-> FALSE,
               pre |-> Self, mid |-> Self]

\* The thread that owns the table has not panicked or aborted.
Running == last.op \notin {"panic", "abort"}

\* With capacity 0, `hasher.finish() as usize % self.capacity` (lines 56,
\* 108, 141) panics in insert, remove and contains alike.
RemainderByZero(op, key) ==
    /\ Running
    /\ capacity = 0
    /\ last' = [op |-> "panic", key |-> key, value |-> 0, ret |-> FALSE,
                grew |-> FALSE, pre |-> Self, mid |-> Self]
    /\ UNCHANGED <<capacity, num_entries, table, max_load_factor, hasher_state>>

\* With max_load_factor <= 0 the load check of every insert succeeds (lines
\* 85-88), the one of each re-insert included: build_resized_table recurses
\* with a doubled capacity until the process runs out of stack or memory.
GrowthNeverEnds(key, value) ==
    /\ Running
    /\ capacity > 0
    /\ max_load_factor[1] <= 0
    /\ last' = [op |-> "abort", key |-> key, value |-> value, ret |-> FALSE,
                grew |-> TRUE, pre |-> Self, mid |-> Self]
    /\ UNCHANGED <<capacity, num_entries, table, max_load_factor, hasher_state>>

InsertAnyConfig(key, value) ==
    /\ Running
    /\ capacity > 0
    /\ max_load_factor[1] > 0
    /\ Insert(key, value)
    /\ capacity' <= MaxCapacityInvalid

RemoveAnyConfig(key) == Running /\ capacity > 0 /\ Remove(key)

ContainsAnyConfig(key) == Running /\ capacity > 0 /\ Contains(key)

NextAnyConfig ==
    \/ \E key \in Keys, value \in Values : InsertAnyConfig(key, value)
    \/ \E key \in Keys : RemoveAnyConfig(key)
    \/ \E key \in Keys : ContainsAnyConfig(key)
    \/ \E op \in {"insert", "remove", "contains"}, key \in Keys :
           RemainderByZero(op, key)
    \/ \E key \in Keys, value \in Values : GrowthNeverEnds(key, value)

SpecInvalidConfig == InitInvalidConfig /\ [][NextAnyConfig]_vars

TypeOK ==
    /\ capacity \in 1..MaxCapacity
    /\ num_entries \in 0..MaxCapacity
    /\ DOMAIN table = 0..(capacity - 1)
    /\ last.op \in {"new", "insert", "remove", "contains"}

\* ================================================================ claims

\* C1: immediately after insert(k, v) returns, contains(k) returns true.
RoundTrip == last.op = "insert" => contains(Self, last.key)

\* C2: insert(k, v2) on a table that already stores k leaves exactly one
\* occupied slot holding k, and that slot holds v2.
UpdateInPlace ==
    (last.op = "insert" /\ Held(last.pre, last.key)) =>
        /\ Cardinality(SlotsHolding(Self, last.key)) = 1
        /\ \A i \in SlotsHolding(Self, last.key) :
               table[i][1].value = last.value

\* C3: after insert(k, v) followed by remove(k), contains(k) returns false
\* and a second remove(k) returns false.
RemoveReinsert ==
    last.op = "insert" =>
        LET removed == remove(Self, last.key).self
        IN /\ ~contains(removed, last.key)
           /\ ~remove(removed, last.key).ret

\* C3 witness: an insert has returned with its key stored, so that the
\* remove(k) that follows finds and clears it.
RemoveReinsertWitness ==
    /\ last.op = "insert"
    /\ contains(Self, last.key)
    /\ remove(Self, last.key).ret
    /\ \E i \in SlotsHolding(Self, last.key) :
           table[i][1].probing_sequence_length >= 1

\* C4: a remove(k) that removes a stored key leaves contains(k') true for
\* every other key k' for which it was true before.
BackwardShiftKeepsOthers ==
    (last.op = "remove" /\ last.ret) =>
        \A k \in Keys \ {last.key} :
            contains(last.pre, k) => contains(Self, k)

\* C5: remove(k) of a key held by no occupied slot returns false and leaves
\* the entry count, the capacity and every slot unchanged.
RemoveAbsentIsNoOp ==
    (last.op = "remove" /\ ~Held(last.pre, last.key)) =>
        /\ last.ret = FALSE
        /\ num_entries = last.pre.num_entries
        /\ capacity = last.pre.capacity
        /\ table = last.pre.table

\* C5 witness: remove of an absent key whose probe walked over at least one
\* occupied slot before it met None.
RemoveAbsentWitness ==
    /\ last.op = "remove"
    /\ ~Held(last.pre, last.key)
    /\ last.pre.table[HashId(last.key, last.pre.capacity)] # None
    /\ last.ret = FALSE

\* C6: when an insert triggers growth, every key contains found before the
\* growth, and the key just inserted, is found after the insert returns, and
\* the capacity is larger than before.
GrowthPreservesMembership ==
    (last.op = "insert" /\ last.grew) =>
        /\ capacity > last.pre.capacity
        /\ contains(Self, last.key)
        /\ \A k \in Keys : contains(last.mid, k) => contains(Self, k)

\* C7: num_entries after build_resized_table equals num_entries before it,
\* so an insert that triggers growth raises the count by exactly one.
GrowthKeepsCount ==
    (last.op = "insert" /\ last.grew) =>
        /\ num_entries = last.mid.num_entries
        /\ num_entries = last.pre.num_entries + 1

\* C8: after every top-level insert returns (growth included),
\* count / capacity <= max_load_factor, for the count the table keeps
\* (num_entries) and for the number of occupied slots.
LoadFactorBound ==
    last.op = "insert" =>
        /\ num_entries * max_load_factor[2] <= max_load_factor[1] * capacity
        /\ Cardinality(Occupied(Self)) * max_load_factor[2]
               <= max_load_factor[1] * capacity

\* C8 witness: an insert that met the threshold and grew the table.
LoadFactorWitness ==
    /\ last.op = "insert"
    /\ last.grew
    /\ capacity > last.pre.capacity
    /\ Occupied(Self) # {}

\* C9: every occupied slot i holding entry e has
\* e.psl = (i - home(e.key) + capacity) mod capacity, home taken against the
\* current capacity.
PslInvariant ==
    \A i \in Occupied(Self) :
        table[i][1].probing_sequence_length
            = (i - HashId(table[i][1].key, capacity) + capacity) % capacity

\* C9 witness: after a remove that cleared a slot, an entry displaced past
\* the end of the array (its slot index is below its home slot).
PslWitness ==
    /\ last.op = "remove"
    /\ last.ret
    /\ \E i \in Occupied(Self) :
           /\ table[i][1].probing_sequence_length >= 1
           /\ i < HashId(table[i][1].key, capacity)

\* C10: when insert is only ever called with a key that no occupied slot
\* holds, at most one occupied slot holds any given key.
KeysUnique == \A k \in Keys : Cardinality(SlotsHolding(Self, k)) <= 1

\* C11: remove(k) returns true if and only if contains(k), evaluated on the
\* table as it was immediately before the call, returns true.
RemoveAgreesWithContains ==
    last.op = "remove" => (last.ret <=> contains(last.pre, last.key))

\* C12: new rejects a zero capacity and a load factor outside (0, 1), so no
\* insert, remove or contains is ever called on a table of zero capacity or
\* of a load factor <= 0 or >= 1.
ConstructionValidated ==
    last.op # "new" =>
        /\ last.pre.capacity >= 1
        /\ 0 < max_load_factor[1]
        /\ max_load_factor[1] < max_load_factor[2]

\* C13: with 0 < max_load_factor < 1 and capacity >= 1 every insert ends:
\* each call of insert, those made while re-inserting included, starts on a
\* table with a None slot, its loop reads at most capacity slots before it
\* finds one, and the growth it triggers ends at a finite capacity.
InsertIsTotal ==
    /\ InsertReturns(Self)
    /\ \A key \in Keys :
           InsertLoopVisits(Self, HashId(key, capacity), 0) <= capacity
    /\ last.op = "insert" =>
           \A call \in InsertCalls(last.pre, last.key, last.value) :
               /\ InsertReturns(call[1])
               /\ InsertLoopVisits(call[1],
                                   HashId(call[2], call[1].capacity), 0)
                      <= call[1].capacity
               /\ call[1].capacity <= capacity

\* C13 witness: an insert whose growth grew again while re-inserting, and
\* one of whose calls walked over occupied slots before it met None.
InsertIsTotalWitness ==
    /\ last.op = "insert"
    /\ last.grew
    /\ capacity >= 4 * last.pre.capacity
    /\ \E call \in InsertCalls(last.pre, last.key, last.value) :
           InsertLoopVisits(call[1], HashId(call[2], call[1].capacity), 0) >= 3

\* C14: contains(k) leaves every slot, the entry count and the capacity
\* exactly as they were.
ContainsMutatesNothing ==
    last.op = "contains" =>
        /\ table = last.pre.table
        /\ num_entries = last.pre.num_entries
        /\ capacity = last.pre.capacity

\* C14 witness: a contains that walked over an occupied slot and found its
\* key, on a table that has grown.
ContainsMutatesNothingWitness ==
    /\ last.op = "contains"
    /\ last.ret
    /\ capacity > MaxInitCapacity
    /\ \E i \in SlotsHolding(Self, last.key) :
           table[i][1].probing_sequence_length >= 1

\* C15: contains(k) returns true exactly when some occupied slot holds k; the
\* stop at an occupant whose psl is below the distance walked never hides a
\* stored key.
LookupIsSound == \A k \in Keys : contains(Self, k) <=> Held(Self, k)

\* C16: after any sequence of inserts, for every pair of cyclically adjacent
\* occupied slots i and i+1, psl(i+1) <= psl(i) + 1 (the poorer candidate
\* takes the slot of a richer occupant, which probes on).
AdjacentPslBound ==
    \A i \in Occupied(Self) :
        NextSlot(i, capacity) \in Occupied(Self) =>
            table[NextSlot(i, capacity)][1].probing_sequence_length
                <= table[i][1].probing_sequence_length + 1

\* C17: a remove(k) that returns true lowers the entry count by exactly one,
\* so that the entry count equals the number of occupied slots.
RemoveDecrementsCount ==
    (last.op = "remove" /\ last.ret) =>
        /\ num_entries = last.pre.num_entries - 1
        /\ num_entries = Cardinality(Occupied(Self))

\* C18: an insert leaves the capacity unchanged when count / capacity is
\* below max_load_factor once the entry is placed, and otherwise exactly
\* doubles it; remove and contains never change the capacity, and the
\* capacity never decreases.
GrowthDoublesOnce ==
    /\ (last.op = "insert" /\ ~LoadReached(last.mid)) =>
           capacity = last.pre.capacity
    /\ (last.op = "insert" /\ LoadReached(last.mid)) =>
           capacity = 2 * last.pre.capacity
    /\ last.op \in {"remove", "contains"} => capacity = last.pre.capacity
    /\ capacity >= last.pre.capacity

\* C19 (implicit): for a table created with 0 < max_load_factor < 1 and
\* capacity >= 1, the entry count is never smaller than the number of
\* occupied slots, so after every completed operation at least one slot is
\* None, and every contains and every remove call, for a present or an
\* absent key, ends after reading at most capacity slots.
ProbesEndWithinCapacity ==
    /\ num_entries >= Cardinality(Occupied(Self))
    /\ Occupied(Self) # DOMAIN table
    /\ \A key \in Keys :
          /\ RemoveReturns(Self, key)
          /\ RemoveLoopVisits(Self, key, HashId(key, capacity), 0) <= capacity
          /\ ContainsLoopVisits(Self, key, HashId(key, capacity), 0)
                <= capacity
    /\ last.op = "remove" =>
          RemoveLoopVisits(last.pre, last.key,
                           HashId(last.key, last.pre.capacity), 0)
              <= last.pre.capacity
    /\ last.op = "contains" =>
          ContainsLoopVisits(last.pre, last.key,
                             HashId(last.key, last.pre.capacity), 0)
              <= last.pre.capacity

\* A remove of an absent key has read every slot of a table with one None
\* slot only, which is the last one it reached.
ProbesEndWithinCapacityWitness ==
    /\ last.op = "remove"
    /\ ~last.ret
    /\ last.pre.capacity >= 3
    /\ Cardinality(Occupied(last.pre)) = last.pre.capacity - 1
    /\ RemoveLoopVisits(last.pre, last.key,
                        HashId(last.key, last.pre.capacity), 0)
          = last.pre.capacity
    /\ ContainsLoopVisits(Self, last.key, HashId(last.key, capacity), 0) >= 2
====
